---- MODULE Spec2Model ----
(***************************************************************************)
(* Inventory calculation core of app.py (EOQ, total inventory cost,        *)
(* orders per year, safety stock, reorder point),                          *)
(* and the page model_persediaan that calls it and draws the cost chart    *)
(* and the inventory-cycle chart.                                          *)
(*                                                                         *)
(* The functions compute in binary floating point.  The model keeps the    *)
(* structure of that arithmetic (round to nearest, ties to even, gradual   *)
(* underflow, overflow to infinity, NaN) in a format with Prec significand *)
(* bits instead of 53.  A finite number is held as the integer v of        *)
(* value = v / 2^FracBits; v is representable when it is m * 2^k with      *)
(* m < 2^Prec and k <= ExpSpan.  Zero is unsigned: == and <= of Python do  *)
(* not tell -0.0 from 0.0 and the code never divides by a zero.            *)
(***************************************************************************)
EXTENDS Integers, Sequences, FiniteSets

\* ------------------------------------------------------------------------
\* Bounds of the floating-point format
\* ------------------------------------------------------------------------
Prec == 3
ExpSpan == 8
FracBits == 4

RECURSIVE Pow2(_)
Pow2(n) == IF n <= 0 THEN 1 ELSE 2 * Pow2(n - 1)

Scale == Pow2(FracBits)
MantLimit == Pow2(Prec)
Vmax == (MantLimit - 1) * Pow2(ExpSpan)

Abs(x) == IF x < 0 THEN 0 - x ELSE x

\* ------------------------------------------------------------------------
\* Floating-point values
\* ------------------------------------------------------------------------
Fin(x) == [cls |-> "fin", v |-> x]
PInf == [cls |-> "inf", v |-> 1]
NInf == [cls |-> "inf", v |-> 0 - 1]
NaN == [cls |-> "nan", v |-> 0]
\* the value of an expression whose evaluation raised (ZeroDivisionError)
Raised == [cls |-> "exc", v |-> 0]

Representable(x) == \E k \in 0..ExpSpan : x % Pow2(k) = 0 /\ x \div Pow2(k) < MantLimit

FiniteFloats == {Fin(x) : x \in {y \in (0 - Vmax)..Vmax : Representable(Abs(y))}}
Floats == FiniteFloats \cup {PInf, NInf, NaN}

Zero == Fin(0)
One == Fin(Scale)
Two == Fin(2 * Scale)

Neg(a) == IF a.cls \in {"nan", "exc"} THEN a ELSE [cls |-> a.cls, v |-> 0 - a.v]
Sign(a) == IF a.v < 0 THEN 0 - 1 ELSE IF a.v > 0 THEN 1 ELSE 0
Signed(s, a) == IF s < 0 THEN Neg(a) ELSE a

\* the exponent the quotient n/d is rounded at: the least k with n/d < 2^Prec * 2^k
RoundExp(n, d) ==
    IF \E k \in 0..ExpSpan : n < MantLimit * Pow2(k) * d
    THEN CHOOSE k \in 0..ExpSpan :
             /\ n < MantLimit * Pow2(k) * d
             /\ \A j \in 0..(k - 1) : ~(n < MantLimit * Pow2(j) * d)
    ELSE ExpSpan + 1

\* n/d >= 0 rounded to the nearest representable value, ties to the even significand
RoundPos(n, d) ==
    LET k == RoundExp(n, d)
        u == Pow2(k) * d
        m == n \div u
        r == n - m * u
        up == (2 * r > u) \/ (2 * r = u /\ m % 2 = 1)
        w == (IF up THEN m + 1 ELSE m) * Pow2(k)
    IN  IF k > ExpSpan \/ w > Vmax THEN PInf ELSE Fin(w)

RoundRat(n, d) == IF n < 0 THEN Neg(RoundPos(0 - n, d)) ELSE RoundPos(n, d)

\* a * b
FMul(a, b) ==
    IF a.cls = "exc" \/ b.cls = "exc" THEN Raised
    ELSE IF a.cls = "nan" \/ b.cls = "nan" THEN NaN
    ELSE IF a.cls = "inf" \/ b.cls = "inf"
         THEN IF Sign(a) * Sign(b) = 0 THEN NaN ELSE Signed(Sign(a) * Sign(b), PInf)
    ELSE RoundRat(a.v * b.v, Scale)

\* a / b; a zero divisor raises
FDiv(a, b) ==
    IF a.cls = "exc" \/ b.cls = "exc" THEN Raised
    ELSE IF a.cls = "nan" \/ b.cls = "nan" THEN NaN
    ELSE IF b.cls = "fin" /\ b.v = 0 THEN Raised
    ELSE IF a.cls = "inf"
         THEN IF b.cls = "inf" THEN NaN ELSE Signed(Sign(a) * Sign(b), PInf)
    ELSE IF b.cls = "inf" THEN Zero
    ELSE Signed(Sign(a) * Sign(b), RoundPos(Abs(a.v) * Scale, Abs(b.v)))

\* a + b
FAdd(a, b) ==
    IF a.cls = "exc" \/ b.cls = "exc" THEN Raised
    ELSE IF a.cls = "nan" \/ b.cls = "nan" THEN NaN
    ELSE IF a.cls = "inf"
         THEN IF b.cls = "inf" /\ b.v # a.v THEN NaN ELSE a
    ELSE IF b.cls = "inf" THEN b
    ELSE RoundRat(a.v + b.v, 1)

\* np.sqrt of a finite x >= 0: sqrt(x / Scale) * Scale = sqrt(x * Scale), correctly rounded
SqrtPos(x) ==
    LET n == x * Scale
        k == IF \E i \in 0..ExpSpan : n < (MantLimit * Pow2(i)) * (MantLimit * Pow2(i))
             THEN CHOOSE i \in 0..ExpSpan :
                      /\ n < (MantLimit * Pow2(i)) * (MantLimit * Pow2(i))
                      /\ \A j \in 0..(i - 1) : ~(n < (MantLimit * Pow2(j)) * (MantLimit * Pow2(j)))
             ELSE ExpSpan
        m == CHOOSE c \in 0..(MantLimit - 1) :
                 /\ (c * Pow2(k)) * (c * Pow2(k)) <= n
                 /\ n < ((c + 1) * Pow2(k)) * ((c + 1) * Pow2(k))
        up == ((2 * m + 1) * Pow2(k)) * ((2 * m + 1) * Pow2(k)) < 4 * n
    IN  Fin((IF up THEN m + 1 ELSE m) * Pow2(k))

\* np.sqrt: NaN (with a warning, no exception) for a negative argument
FSqrt(a) ==
    IF a.cls = "exc" THEN Raised
    ELSE IF a.cls = "nan" THEN NaN
    ELSE IF a.v < 0 THEN NaN
    ELSE IF a.cls = "inf" THEN PInf
    ELSE SqrtPos(a.v)

\* a <= b, a < b, a == b: False when either side is NaN
FLe(a, b) ==
    /\ a.cls # "nan" /\ b.cls # "nan"
    /\ IF a.cls = "inf" THEN a.v < 0 \/ b = a
       ELSE IF b.cls = "inf" THEN b.v > 0
       ELSE a.v <= b.v
FEq(a, b) == a.cls # "nan" /\ a = b
FLt(a, b) == FLe(a, b) /\ ~FEq(a, b)

\* np.isfinite
isfinite(a) == a.cls = "fin"

\* ------------------------------------------------------------------------
\* The functions of the calculation core
\* ------------------------------------------------------------------------
\* Every function yields [ret, ops]: the tuple of returned values and the
\* arithmetic operations the call evaluated, in order, each with its operands
\* and its result (sqrt has one operand, held in both a and b).
Op(o, x, y, z) == [op |-> o, a |-> x, b |-> y, r |-> z]
Result(values, operations) == [ret |-> values, ops |-> operations]

\* variant: the holding cost multiplies under the root instead of dividing
calculate_eoq_times_h(D, S, H) ==
    IF FEq(H, Zero) THEN Result(<<PInf>>, <<>>)
    ELSE LET t == FMul(Two, D)
             n == FMul(t, S)
             q == FMul(n, H)
             eoq == FSqrt(q)
         IN  Result(<<eoq>>,
                    <<Op("*", Two, D, t), Op("*", t, S, n), Op("*", n, H, q), Op("sqrt", q, q, eoq)>>)

\* variant: the factor 2 under the root is missing
calculate_eoq_no_factor(D, S, H) ==
    IF FEq(H, Zero) THEN Result(<<PInf>>, <<>>)
    ELSE LET n == FMul(D, S)
             q == FDiv(n, H)
             eoq == FSqrt(q)
         IN  Result(<<eoq>>, <<Op("*", D, S, n), Op("/", n, H, q), Op("sqrt", q, q, eoq)>>)

calculate_eoq(D, S, H) ==
    IF FEq(H, Zero) THEN Result(<<PInf>>, <<>>)
    ELSE LET t == FMul(Two, D)
             n == FMul(t, S)
             q == FDiv(n, H)
             eoq == FSqrt(q)
         IN  Result(<<eoq>>,
                    <<Op("*", Two, D, t), Op("*", t, S, n), Op("/", n, H, q), Op("sqrt", q, q, eoq)>>)

\* variant: the guard lets a zero quantity through (Q < 0 for Q <= 0)
calculate_total_inventory_cost_zero_q(D, S, H, Q) ==
    IF FLt(Q, Zero) \/ ~isfinite(Q) THEN Result(<<PInf, PInf, PInf>>, <<>>)
    ELSE LET x == FDiv(D, Q)
             ordering_cost == FMul(x, S)
             y == FDiv(Q, Two)
             holding_cost == FMul(y, H)
             total_cost == FAdd(ordering_cost, holding_cost)
         IN  Result(<<ordering_cost, holding_cost, total_cost>>,
                    <<Op("/", D, Q, x), Op("*", x, S, ordering_cost),
                      Op("/", Q, Two, y), Op("*", y, H, holding_cost),
                      Op("+", ordering_cost, holding_cost, total_cost)>>)

\* variant: the holding cost is returned first, the ordering cost second
calculate_total_inventory_cost_swapped(D, S, H, Q) ==
    IF FLe(Q, Zero) \/ ~isfinite(Q) THEN Result(<<PInf, PInf, PInf>>, <<>>)
    ELSE LET x == FDiv(D, Q)
             ordering_cost == FMul(x, S)
             y == FDiv(Q, Two)
             holding_cost == FMul(y, H)
             total_cost == FAdd(ordering_cost, holding_cost)
         IN  Result(<<holding_cost, ordering_cost, total_cost>>,
                    <<Op("/", D, Q, x), Op("*", x, S, ordering_cost),
                      Op("/", Q, Two, y), Op("*", y, H, holding_cost),
                      Op("+", ordering_cost, holding_cost, total_cost)>>)

\* variant: the ordering cost is grouped as D / (Q * S)
calculate_total_inventory_cost_grouping(D, S, H, Q) ==
    IF FLe(Q, Zero) \/ ~isfinite(Q) THEN Result(<<PInf, PInf, PInf>>, <<>>)
    ELSE LET x == FMul(Q, S)
             ordering_cost == FDiv(D, x)
             y == FDiv(Q, Two)
             holding_cost == FMul(y, H)
             total_cost == FAdd(ordering_cost, holding_cost)
         IN  Result(<<ordering_cost, holding_cost, total_cost>>,
                    <<Op("*", Q, S, x), Op("/", D, x, ordering_cost),
                      Op("/", Q, Two, y), Op("*", y, H, holding_cost),
                      Op("+", ordering_cost, holding_cost, total_cost)>>)

calculate_total_inventory_cost(D, S, H, Q) ==
    IF FLe(Q, Zero) \/ ~isfinite(Q) THEN Result(<<PInf, PInf, PInf>>, <<>>)
    ELSE LET x == FDiv(D, Q)
             ordering_cost == FMul(x, S)
             y == FDiv(Q, Two)
             holding_cost == FMul(y, H)
             total_cost == FAdd(ordering_cost, holding_cost)
         IN  Result(<<ordering_cost, holding_cost, total_cost>>,
                    <<Op("/", D, Q, x), Op("*", x, S, ordering_cost),
                      Op("/", Q, Two, y), Op("*", y, H, holding_cost),
                      Op("+", ordering_cost, holding_cost, total_cost)>>)

\* variant: the guard does not test np.isfinite(Q)
calculate_orders_per_year_no_isfinite(D, Q) ==
    IF FLe(Q, Zero) THEN Result(<<PInf>>, <<>>)
    ELSE LET orders == FDiv(D, Q)
         IN  Result(<<orders>>, <<Op("/", D, Q, orders)>>)

calculate_orders_per_year(D, Q) ==
    IF FLe(Q, Zero) \/ ~isfinite(Q) THEN Result(<<PInf>>, <<>>)
    ELSE LET orders == FDiv(D, Q)
         IN  Result(<<orders>>, <<Op("/", D, Q, orders)>>)

\* variant: the square root of the lead time is not taken
calculate_safety_stock_no_sqrt(z_score, std_dev_daily_demand, lead_time_days) ==
    IF FLe(lead_time_days, Zero) \/ FLt(std_dev_daily_demand, Zero) THEN Result(<<Zero>>, <<>>)
    ELSE LET x == FMul(z_score, std_dev_daily_demand)
             safety_stock == FMul(x, lead_time_days)
         IN  Result(<<safety_stock>>,
                    <<Op("*", z_score, std_dev_daily_demand, x),
                      Op("*", x, lead_time_days, safety_stock)>>)

calculate_safety_stock(z_score, std_dev_daily_demand, lead_time_days) ==
    IF FLe(lead_time_days, Zero) \/ FLt(std_dev_daily_demand, Zero) THEN Result(<<Zero>>, <<>>)
    ELSE LET x == FMul(z_score, std_dev_daily_demand)
             y == FSqrt(lead_time_days)
             safety_stock == FMul(x, y)
         IN  Result(<<safety_stock>>,
                    <<Op("*", z_score, std_dev_daily_demand, x),
                      Op("sqrt", lead_time_days, lead_time_days, y),
                      Op("*", x, y, safety_stock)>>)

\* variant: the guard of calculate_safety_stock (lead_time_days <= 0) is used
calculate_reorder_point_le_guard(avg_daily_demand, lead_time_days, safety_stock) ==
    IF FLe(lead_time_days, Zero) \/ FLt(avg_daily_demand, Zero) THEN Result(<<Zero>>, <<>>)
    ELSE LET x == FMul(avg_daily_demand, lead_time_days)
             reorder_point == FAdd(x, safety_stock)
         IN  Result(<<reorder_point>>,
                    <<Op("*", avg_daily_demand, lead_time_days, x),
                      Op("+", x, safety_stock, reorder_point)>>)

calculate_reorder_point(avg_daily_demand, lead_time_days, safety_stock) ==
    IF FLt(lead_time_days, Zero) \/ FLt(avg_daily_demand, Zero) THEN Result(<<Zero>>, <<>>)
    ELSE LET x == FMul(avg_daily_demand, lead_time_days)
             reorder_point == FAdd(x, safety_stock)
         IN  Result(<<reorder_point>>,
                    <<Op("*", avg_daily_demand, lead_time_days, x),
                      Op("+", x, safety_stock, reorder_point)>>)

\* ------------------------------------------------------------------------
\* State: the calls still to be made and the calls completed so far
\* ------------------------------------------------------------------------
VARIABLES todo, log
vars == <<todo, log>>

\* a call to make; chain: the order quantity (the last argument) is the value
\* the preceding call returned, as where the page passes eoq on
Call(f, a) == [fn |-> f, args |-> a, chain |-> FALSE]
CallAtPrev(f, a) == [fn |-> f, args |-> a, chain |-> TRUE]

Last(s) == s[Len(s)]

ActualArgs(c) ==
    IF c.chain THEN [c.args EXCEPT ![Len(c.args)] = Last(log).ret[1]] ELSE c.args

Pending(f) == todo # <<>> /\ Head(todo).fn = f

Complete(a, r) ==
    /\ log' = Append(log, [fn |-> Head(todo).fn, args |-> a, ret |-> r.ret, ops |-> r.ops])
    /\ todo' = Tail(todo)

Call_calculate_eoq ==
    /\ Pending("calculate_eoq")
    /\ LET a == ActualArgs(Head(todo))
       IN  Complete(a, calculate_eoq(a[1], a[2], a[3]))

Call_calculate_total_inventory_cost ==
    /\ Pending("calculate_total_inventory_cost")
    /\ LET a == ActualArgs(Head(todo))
       IN  Complete(a, calculate_total_inventory_cost(a[1], a[2], a[3], a[4]))

Call_calculate_orders_per_year ==
    /\ Pending("calculate_orders_per_year")
    /\ LET a == ActualArgs(Head(todo))
       IN  Complete(a, calculate_orders_per_year(a[1], a[2]))

Call_calculate_safety_stock ==
    /\ Pending("calculate_safety_stock")
    /\ LET a == ActualArgs(Head(todo))
       IN  Complete(a, calculate_safety_stock(a[1], a[2], a[3]))

Call_calculate_reorder_point ==
    /\ Pending("calculate_reorder_point")
    /\ LET a == ActualArgs(Head(todo))
       IN  Complete(a, calculate_reorder_point(a[1], a[2], a[3]))

\* ------------------------------------------------------------------------
\* Argument sets
\* ------------------------------------------------------------------------
\* a sample of every kind of number: not-a-number, the infinities, zero, a
\* negative, the least and the greatest positive number, and ordinary ones
Probe == {NaN, NInf, PInf, Zero, Neg(One), Fin(1), One, Fin(3 * Scale), Fin(Vmax)}
PosFinite == {a \in FiniteFloats : a.v > 0}
PosProbe == {a \in Probe : a.cls = "fin" /\ a.v > 0} \cup {Fin(Scale \div 2), Fin(5 * Scale)}

\* ------------------------------------------------------------------------
\* Specifications: the calls each one makes
\* ------------------------------------------------------------------------
\* one call of any function of the core, on sampled arguments
Init ==
    /\ log = <<>>
    /\ \/ \E D \in Probe, S \in Probe, H \in Probe :
              todo = <<Call("calculate_eoq", <<D, S, H>>)>>
       \/ \E D \in Probe, S \in Probe, H \in Probe, Q \in Probe :
              todo = <<Call("calculate_total_inventory_cost", <<D, S, H, Q>>)>>
       \/ \E D \in Probe, Q \in Probe :
              todo = <<Call("calculate_orders_per_year", <<D, Q>>)>>
       \/ \E z \in Probe, sd \in Probe, L \in Probe :
              todo = <<Call("calculate_safety_stock", <<z, sd, L>>)>>
       \/ \E avg \in Probe, L \in Probe, ss \in Probe :
              todo = <<Call("calculate_reorder_point", <<avg, L, ss>>)>>
Next ==
    \/ Call_calculate_eoq
    \/ Call_calculate_total_inventory_cost
    \/ Call_calculate_orders_per_year
    \/ Call_calculate_safety_stock
    \/ Call_calculate_reorder_point
Spec == Init /\ [][Next]_vars

\* calculate_eoq on every demand and holding cost and sampled ordering costs,
\* then on the same D and S with H = 0
InitEoq ==
    /\ log = <<>>
    /\ \E D \in Floats, S \in Probe, H \in Floats :
           todo = <<Call("calculate_eoq", <<D, S, H>>), Call("calculate_eoq", <<D, S, Zero>>)>>
NextEoq == Call_calculate_eoq
SpecEoq == InitEoq /\ [][NextEoq]_vars

\* calculate_total_inventory_cost on every demand and quantity at fixed costs,
\* and on every quantity at sampled D, S, H
InitCost ==
    /\ log = <<>>
    /\ \/ \E D \in Floats, Q \in Floats :
              todo = <<Call("calculate_total_inventory_cost", <<D, Fin(3 * Scale), One, Q>>)>>
       \/ \E D \in Probe, S \in Probe, H \in Probe, Q \in Floats :
              todo = <<Call("calculate_total_inventory_cost", <<D, S, H, Q>>)>>
NextCost == Call_calculate_total_inventory_cost
SpecCost == InitCost /\ [][NextCost]_vars

\* calculate_eoq, then the cost at the quantity it returned, as the page does
InitAtEoq ==
    /\ log = <<>>
    /\ \E D \in PosFinite, S \in PosFinite, H \in PosFinite :
           todo = <<Call("calculate_eoq", <<D, S, H>>),
                    CallAtPrev("calculate_total_inventory_cost", <<D, S, H, Zero>>)>>
NextAtEoq == Call_calculate_eoq \/ Call_calculate_total_inventory_cost
SpecAtEoq == InitAtEoq /\ [][NextAtEoq]_vars

\* calculate_eoq, the cost at the quantity it returned, and the cost at any
\* other quantity Q
InitMin ==
    /\ log = <<>>
    /\ \E D \in PosFinite, S \in PosProbe, H \in PosProbe, Q \in PosFinite :
           todo = <<Call("calculate_eoq", <<D, S, H>>),
                    CallAtPrev("calculate_total_inventory_cost", <<D, S, H, Zero>>),
                    Call("calculate_total_inventory_cost", <<D, S, H, Q>>)>>
NextMin == Call_calculate_eoq \/ Call_calculate_total_inventory_cost
SpecMin == InitMin /\ [][NextMin]_vars

\* calculate_orders_per_year, then calculate_total_inventory_cost at the same
\* D and Q
InitOrders ==
    /\ log = <<>>
    /\ \/ \E D \in Floats, Q \in Floats :
              todo = <<Call("calculate_orders_per_year", <<D, Q>>),
                       Call("calculate_total_inventory_cost", <<D, Fin(3 * Scale), One, Q>>)>>
       \/ \E D \in Probe, S \in Probe, H \in Probe, Q \in Floats :
              todo = <<Call("calculate_orders_per_year", <<D, Q>>),
                       Call("calculate_total_inventory_cost", <<D, S, H, Q>>)>>
NextOrders == Call_calculate_orders_per_year \/ Call_calculate_total_inventory_cost
SpecOrders == InitOrders /\ [][NextOrders]_vars

\* calculate_safety_stock once on any lead time, or at two lead times
\* L1 < L2 for the same positive z and sigma
InitSafety ==
    /\ log = <<>>
    /\ \/ \E z \in Probe, sd \in Probe, L \in Floats :
              todo = <<Call("calculate_safety_stock", <<z, sd, L>>)>>
       \/ \E z \in PosProbe, sd \in PosProbe, L1 \in PosFinite, L2 \in PosFinite :
              /\ L1.v < L2.v
              /\ todo = <<Call("calculate_safety_stock", <<z, sd, L1>>),
                          Call("calculate_safety_stock", <<z, sd, L2>>)>>
NextSafety == Call_calculate_safety_stock
SpecSafety == InitSafety /\ [][NextSafety]_vars

\* calculate_reorder_point on every daily demand and lead time
InitReorder ==
    /\ log = <<>>
    /\ \E avg \in Floats, L \in Floats, ss \in Probe :
           todo = <<Call("calculate_reorder_point", <<avg, L, ss>>)>>
NextReorder == Call_calculate_reorder_point
SpecReorder == InitReorder /\ [][NextReorder]_vars

\* calculate_total_inventory_cost at two quantities Q1 < Q2 for the same
\* positive D, S, H
InitMono ==
    /\ log = <<>>
    /\ \E D \in PosProbe, S \in PosProbe \cap Probe, H \in PosProbe \cap Probe,
          Q1 \in PosFinite, Q2 \in PosFinite :
           /\ Q1.v < Q2.v
           /\ todo = <<Call("calculate_total_inventory_cost", <<D, S, H, Q1>>),
                       Call("calculate_total_inventory_cost", <<D, S, H, Q2>>)>>
NextMono == Call_calculate_total_inventory_cost
SpecMono == InitMono /\ [][NextMono]_vars

\* ------------------------------------------------------------------------
\* What correct rounding means, stated without the rounding procedure
\* ------------------------------------------------------------------------
RepInts == {x \in (0 - Vmax)..Vmax : Representable(Abs(x))}

\* r is the rational n/d (d > 0) rounded to nearest: no representable number
\* is closer, and infinity stands for a magnitude at or beyond the overflow
\* threshold Vmax + half a unit in the last place
NearestTo(r, n, d) ==
    LET lim == d * (2 * Vmax + Pow2(ExpSpan))
    IN  \/ r = PInf /\ 2 * n >= lim
        \/ r = NInf /\ 2 * (0 - n) >= lim
        \/ /\ r.cls = "fin"
           /\ 2 * Abs(n) < lim
           /\ \A x \in RepInts : Abs(r.v * d - n) <= Abs(x * d - n)

\* r is the square root of the finite x >= 0 rounded to nearest
NearestToSqrt(r, x) ==
    /\ r.cls = "fin" /\ r.v >= 0
    /\ \A y \in RepInts :
           /\ (0 <= y /\ y < r.v) => (y + r.v) * (y + r.v) <= 4 * x.v * Scale
           /\ y > r.v => (y + r.v) * (y + r.v) >= 4 * x.v * Scale

\* the operation o has the result IEEE arithmetic gives it
OpOk(o) ==
    IF o.a.cls = "nan" \/ o.b.cls = "nan" THEN o.r = NaN
    ELSE IF o.op = "sqrt"
    THEN IF o.a.v < 0 THEN o.r = NaN
         ELSE IF o.a.cls = "inf" THEN o.r = PInf
         ELSE NearestToSqrt(o.r, o.a)
    ELSE IF o.a.cls = "fin" /\ o.b.cls = "fin"
    THEN CASE o.op = "*" -> NearestTo(o.r, o.a.v * o.b.v, Scale)
           [] o.op = "+" -> NearestTo(o.r, o.a.v + o.b.v, 1)
           [] o.op = "/" -> /\ o.b.v # 0
                            /\ NearestTo(o.r, Sign(o.b) * o.a.v * Scale, Abs(o.b.v))
    ELSE CASE o.op = "*" -> IF Sign(o.a) * Sign(o.b) = 0 THEN o.r = NaN
                            ELSE o.r = Signed(Sign(o.a) * Sign(o.b), PInf)
           [] o.op = "+" -> IF o.a.cls = "inf" /\ o.b.cls = "inf" /\ o.a # o.b THEN o.r = NaN
                            ELSE o.r = (IF o.a.cls = "inf" THEN o.a ELSE o.b)
           [] o.op = "/" -> IF o.a.cls = "inf" /\ o.b.cls = "inf" THEN o.r = NaN
                            ELSE IF o.b.cls = "inf" THEN o.r = Zero
                            ELSE o.b.v # 0 /\ o.r = Signed(Sign(o.a) * Sign(o.b), PInf)

\* the operations of a call are exactly the sequence shape, each correctly
\* evaluated: shape lists <<operator, left operand, right operand>>, where an
\* operand is a number or R(j), the result of the j-th operation
R(j) == [cls |-> "op", v |-> j]
Operand(e, x) == IF x.cls = "op" THEN e.ops[x.v].r ELSE x
Computes(e, shape) ==
    /\ Len(e.ops) = Len(shape)
    /\ \A j \in 1..Len(shape) :
           /\ e.ops[j].op = shape[j][1]
           /\ e.ops[j].a = Operand(e, shape[j][2])
           /\ e.ops[j].b = Operand(e, shape[j][3])
           /\ OpOk(e.ops[j])

Positive(a) == FLt(Zero, a)
Degenerate(Q) == FLe(Q, Zero) \/ Q.cls # "fin"
Divides(e) == \E j \in 1..Len(e.ops) : e.ops[j].op = "/"

\* ------------------------------------------------------------------------
\* C1: calculate_eoq(D, S, H) is sqrt(2*D*S/H), each operation correctly
\* rounded, for all positive D, S, H, and is +infinity, with nothing
\* evaluated and nothing raised, whenever H == 0, for any D and S
\* ------------------------------------------------------------------------
C1_EoqFormula ==
    \A i \in 1..Len(log) :
        log[i].fn = "calculate_eoq" =>
            LET e == log[i]
                D == e.args[1]
                S == e.args[2]
                H == e.args[3]
            IN  /\ FEq(H, Zero) => e.ret = <<PInf>> /\ e.ops = <<>>
                /\ (Positive(D) /\ Positive(S) /\ Positive(H)) =>
                       /\ Computes(e, <<<<"*", Two, D>>, <<"*", R(1), S>>, <<"/", R(2), H>>, <<"sqrt", R(3), R(3)>>>>)
                       /\ e.ret = <<e.ops[4].r>>

\* sqrt(2 * 1 * 1 / 1) was returned, a number that had to be rounded, and then
\* +infinity for H = 0
C1_Witness ==
    /\ Len(log) = 2
    /\ log[1].args = <<One, One, One>>
    /\ log[1].ret[1].cls = "fin"
    /\ log[1].ret[1].v * log[1].ret[1].v # 2 * Scale * Scale
    /\ log[2].args[3] = Zero
    /\ log[2].ret = <<PInf>>

\* ------------------------------------------------------------------------
\* C2: calculate_total_inventory_cost returns (+inf, +inf, +inf) for every
\* Q <= 0 and every non-finite Q (NaN included), for all D, S, H, and
\* evaluates no division in that case
\* ------------------------------------------------------------------------
C2_CostDegenerate ==
    \A i \in 1..Len(log) :
        (log[i].fn = "calculate_total_inventory_cost" /\ Degenerate(log[i].args[4])) =>
            /\ log[i].ret = <<PInf, PInf, PInf>>
            /\ ~Divides(log[i])

\* a call with Q = 0, where D / Q would have raised, returned the triple
C2_Witness ==
    \E i \in 1..Len(log) :
        /\ log[i].fn = "calculate_total_inventory_cost"
        /\ log[i].args[1] = One
        /\ log[i].args[4] = Zero
        /\ log[i].ret = <<PInf, PInf, PInf>>

\* ------------------------------------------------------------------------
\* C3: for every finite Q > 0 calculate_total_inventory_cost returns
\* (ordering, holding, total), in that order, with ordering = (D / Q) * S,
\* holding = (Q / 2) * H and total = ordering + holding, each operation
\* correctly rounded
\* ------------------------------------------------------------------------
C3_CostFormula ==
    \A i \in 1..Len(log) :
        LET e == log[i]
        IN  (e.fn = "calculate_total_inventory_cost" /\ ~Degenerate(e.args[4])) =>
                /\ Computes(e, <<<<"/", e.args[1], e.args[4]>>, <<"*", R(1), e.args[2]>>,
                                 <<"/", e.args[4], Two>>, <<"*", R(3), e.args[3]>>,
                                 <<"+", R(2), R(4)>>>>)
                /\ e.ret = <<e.ops[2].r, e.ops[4].r, e.ops[5].r>>

\* a call with finite Q > 0 returned three finite amounts, the ordering and the
\* holding cost different, and their sum had to be rounded
C3_Witness ==
    \E i \in 1..Len(log) :
        LET e == log[i]
        IN  /\ e.fn = "calculate_total_inventory_cost"
            /\ ~Degenerate(e.args[4])
            /\ \A j \in 1..3 : e.ret[j].cls = "fin" /\ e.ret[j].v > 0
            /\ e.ret[1] # e.ret[2]
            /\ e.ret[3].v # e.ret[1].v + e.ret[2].v

\* ------------------------------------------------------------------------
\* Rounding error.  An operation whose result is a normal number (finite, not
\* below the least number with a full significand) has exact = result * (1 + e)
\* with |e| <= 2^-Prec; doubling and halving are then exact.
\* ------------------------------------------------------------------------
Normal(a) == a.cls = "fin" /\ Abs(a.v) >= Pow2(Prec - 1)
AllNormal(e) == e.ops # <<>> /\ \A j \in 1..Len(e.ops) : Normal(e.ops[j].r)

RECURSIVE Power(_, _)
Power(b, n) == IF n <= 0 THEN 1 ELSE b * Power(b, n - 1)
\* x * a <= y * b for integers x, y and 0 <= a, b < 2^31, the products taken in
\* two limbs of 10 bits and the rest
Limbs(x, a) ==
    LET lo == x * (a % 1024)
    IN  <<x * (a \div 1024) + lo \div 1024, lo % 1024>>
ProductLe(x, a, y, b) ==
    LET l == Limbs(x, a)
        r == Limbs(y, b)
    IN  l[1] < r[1] \/ (l[1] = r[1] /\ l[2] <= r[2])

\* x * (1 - u)^i <= y * (1 + u)^j, u = 2^-Prec, in integers
LeWithin(x, i, y, j) ==
    ProductLe(x.v, Power(MantLimit - 1, i) * Power(MantLimit, j - i),
              y.v, Power(MantLimit + 1, j) * Power(MantLimit, i - j))

\* the cost was evaluated at the quantity calculate_eoq returned for the same
\* positive D, S, H
CostAtEoq(i) ==
    /\ i > 1
    /\ log[i - 1].fn = "calculate_eoq"
    /\ log[i].fn = "calculate_total_inventory_cost"
    /\ log[i].args = log[i - 1].args \o log[i - 1].ret
    /\ \A j \in 1..3 : Positive(log[i].args[j])

\* ------------------------------------------------------------------------
\* C4 as claimed: at Q = calculate_eoq(D, S, H), D, S, H > 0, the ordering
\* cost equals the holding cost and the total is twice either (taken where
\* no operation overflows or gives a subnormal result)
\* ------------------------------------------------------------------------
C4_Original ==
    \A i \in 1..Len(log) :
        (CostAtEoq(i) /\ AllNormal(log[i - 1]) /\ AllNormal(log[i])) =>
            /\ log[i].ret[1] = log[i].ret[2]
            /\ log[i].ret[3] = FMul(Two, log[i].ret[1])

\* ------------------------------------------------------------------------
\* C4 amended: at Q = calculate_eoq(D, S, H), D, S, H > 0, when no operation
\* of the two calls overflows or gives a subnormal result, the ordering and
\* the holding cost agree up to the rounding of seven operations:
\* (1-u)^5/(1+u)^2 <= ordering/holding <= (1+u)^5/(1-u)^2, u = 2^-Prec
\* ------------------------------------------------------------------------
C4_EqualUpToRounding ==
    \A i \in 1..Len(log) :
        (CostAtEoq(i) /\ AllNormal(log[i - 1]) /\ AllNormal(log[i])) =>
            /\ LeWithin(log[i].ret[1], 2, log[i].ret[2], 5)
            /\ LeWithin(log[i].ret[2], 5, log[i].ret[1], 2)

\* the cost was evaluated at the EOQ with every result normal, and the two
\* components came out different
C4_Witness ==
    \E i \in 1..Len(log) :
        /\ CostAtEoq(i) /\ AllNormal(log[i - 1]) /\ AllNormal(log[i])
        /\ log[i].ret[1] # log[i].ret[2]

\* the cost was evaluated at the EOQ (call 2) and then at a finite Q > 0 for
\* the same D, S, H (call 3)
CostAtEoqAndAt(Q) ==
    /\ Len(log) = 3
    /\ CostAtEoq(2)
    /\ log[3].fn = "calculate_total_inventory_cost"
    /\ log[3].args = SubSeq(log[2].args, 1, 3) \o <<Q>>
    /\ ~Degenerate(Q)

\* ------------------------------------------------------------------------
\* C5 as claimed: for D, S, H > 0 and every finite Q > 0 the total at Q is at
\* least the total at Q = calculate_eoq(D, S, H), and equal only at Q = EOQ
\* (taken where no operation overflows or gives a subnormal result)
\* ------------------------------------------------------------------------
C5_Original ==
    \A Q \in PosFinite :
        (CostAtEoqAndAt(Q) /\ \A i \in 1..3 : AllNormal(log[i])) =>
            /\ FLe(log[2].ret[3], log[3].ret[3])
            /\ log[3].ret[3] = log[2].ret[3] => Q = log[1].ret[1]

\* ------------------------------------------------------------------------
\* C5 amended: for D, S, H > 0 and every finite Q > 0, when no operation of
\* the calls overflows or gives a subnormal result, the total at Q is at
\* least the total at Q = calculate_eoq(D, S, H) less rounding error:
\* total(Q) * (1+u)^3 >= total(EOQ) * (1-u)^5, u = 2^-Prec; equality and a
\* slightly smaller total do occur at Q # EOQ
\* ------------------------------------------------------------------------
C5_MinimumUpToRounding ==
    \A Q \in PosFinite :
        (CostAtEoqAndAt(Q) /\ \A i \in 1..3 : AllNormal(log[i])) =>
            LeWithin(log[2].ret[3], 5, log[3].ret[3], 3)

\* with every result normal, a quantity other than the EOQ gave a total below
\* the total at the EOQ
C5_Witness ==
    \E Q \in PosFinite :
        /\ CostAtEoqAndAt(Q) /\ \A i \in 1..3 : AllNormal(log[i])
        /\ Q # log[1].ret[1]
        /\ FLt(log[3].ret[3], log[2].ret[3])

\* no operation of the call overflowed: an infinite result came from an
\* infinite operand
NoOverflow(e) ==
    \A j \in 1..Len(e.ops) :
        e.ops[j].r.cls = "inf" => (e.ops[j].a.cls = "inf" \/ e.ops[j].b.cls = "inf")

\* ------------------------------------------------------------------------
\* C6 as claimed: a call of calculate_eoq, calculate_total_inventory_cost or
\* calculate_orders_per_year on a positive finite demand and finite costs
\* and quantity, one of the costs or the quantity zero or negative (H < 0
\* included), raises nothing and returns only finite numbers and +infinity,
\* never NaN (taken where no operation overflows)
\* ------------------------------------------------------------------------
C6_NeverNaN ==
    \A i \in 1..Len(log) :
        LET e == log[i]
            costs == IF e.fn = "calculate_orders_per_year" THEN <<e.args[2]>>
                     ELSE SubSeq(e.args, 2, Len(e.args))
        IN  ( /\ e.fn \in {"calculate_eoq", "calculate_total_inventory_cost",
                           "calculate_orders_per_year"}
              /\ e.args[1].cls = "fin" /\ e.args[1].v > 0
              /\ \A j \in 1..Len(costs) : costs[j].cls = "fin"
              /\ \E j \in 1..Len(costs) : costs[j].v <= 0
              /\ NoOverflow(e) ) =>
                \A j \in 1..Len(e.ret) : e.ret[j].cls = "fin" \/ e.ret[j] = PInf

\* ------------------------------------------------------------------------
\* C7: calculate_orders_per_year(D, Q) returns D / Q, correctly rounded, for
\* every finite Q > 0 and +infinity, dividing nothing, for every Q <= 0 and
\* every non-finite Q; it answers +infinity without dividing for exactly the Q
\* for which calculate_total_inventory_cost answers its all-infinity triple
\* without dividing
\* ------------------------------------------------------------------------
C7_OrdersPolicy ==
    \A i \in 1..Len(log) :
        LET e == log[i]
        IN  e.fn = "calculate_orders_per_year" =>
                /\ ~Degenerate(e.args[2]) =>
                       /\ Computes(e, <<<<"/", e.args[1], e.args[2]>>>>)
                       /\ e.ret = <<e.ops[1].r>>
                /\ Degenerate(e.args[2]) => (e.ret = <<PInf>> /\ e.ops = <<>>)
                /\ (i < Len(log) /\ log[i + 1].fn = "calculate_total_inventory_cost"
                        /\ log[i + 1].args[4] = e.args[2]) =>
                       ((e.ret = <<PInf>> /\ ~Divides(e))
                            <=> (log[i + 1].ret = <<PInf, PInf, PInf>> /\ ~Divides(log[i + 1])))

\* both functions were called at a negative Q and both answered infinity
C7_Witness ==
    /\ Len(log) = 2
    /\ log[1].fn = "calculate_orders_per_year"
    /\ log[1].args = <<One, Neg(One)>>
    /\ log[1].ret = <<PInf>>
    /\ log[2].args[4] = Neg(One)
    /\ log[2].ret = <<PInf, PInf, PInf>>

\* ------------------------------------------------------------------------
\* calculate_safety_stock: the value for L <= 0 or sigma < 0, and otherwise
\* ------------------------------------------------------------------------
SafetyStockValue ==
    \A i \in 1..Len(log) :
        LET e == log[i]
            z == e.args[1]
            sd == e.args[2]
            L == e.args[3]
        IN  e.fn = "calculate_safety_stock" =>
                IF FLe(L, Zero) \/ FLt(sd, Zero)
                THEN e.ret = <<Zero>> /\ e.ops = <<>>
                ELSE /\ Computes(e, <<<<"*", z, sd>>, <<"sqrt", L, L>>, <<"*", R(1), R(2)>>>>)
                     /\ e.ret = <<e.ops[3].r>>

\* two calls of calculate_safety_stock at lead times 0 < L1 < L2 for the same
\* finite z > 0 and sigma > 0
TwoLeadTimes ==
    /\ Len(log) = 2
    /\ log[1].fn = "calculate_safety_stock" /\ log[2].fn = "calculate_safety_stock"
    /\ SubSeq(log[1].args, 1, 2) = SubSeq(log[2].args, 1, 2)
    /\ \A j \in 1..3 : log[1].args[j] \in PosFinite /\ log[2].args[j] \in PosFinite
    /\ log[1].args[3].v < log[2].args[3].v

\* ------------------------------------------------------------------------
\* C8 as claimed: calculate_safety_stock is strictly increasing in L over
\* L > 0 when sigma > 0 and z > 0 (taken where no operation overflows or
\* gives a subnormal result)
\* ------------------------------------------------------------------------
C8_Original ==
    (TwoLeadTimes /\ AllNormal(log[1]) /\ AllNormal(log[2])) =>
        FLt(log[1].ret[1], log[2].ret[1])

\* ------------------------------------------------------------------------
\* C8 amended: calculate_safety_stock(z, sigma, L) returns 0 whenever L <= 0
\* or sigma < 0 and otherwise z * sigma * sqrt(L), each operation correctly
\* rounded, which for finite sigma > 0 and z > 0 never decreases as L
\* increases over finite L > 0 (two lead times can give the same value)
\* ------------------------------------------------------------------------
C8_SafetyStock ==
    /\ SafetyStockValue
    /\ TwoLeadTimes => FLe(log[1].ret[1], log[2].ret[1])

\* two different lead times gave the same safety stock, every result normal
C8_Witness ==
    /\ TwoLeadTimes /\ AllNormal(log[1]) /\ AllNormal(log[2])
    /\ log[1].ret = log[2].ret

\* ------------------------------------------------------------------------
\* C9: calculate_reorder_point(avg, L, ss) returns avg * L + ss, each of the
\* two operations correctly rounded, for all avg >= 0, L >= 0 and any ss, and
\* 0, computing nothing, whenever L < 0 or avg < 0
\* ------------------------------------------------------------------------
C9_ReorderPoint ==
    \A i \in 1..Len(log) :
        LET e == log[i]
            avg == e.args[1]
            L == e.args[2]
            ss == e.args[3]
        IN  e.fn = "calculate_reorder_point" =>
                /\ (FLe(Zero, avg) /\ FLe(Zero, L)) =>
                       /\ Computes(e, <<<<"*", avg, L>>, <<"+", R(1), ss>>>>)
                       /\ e.ret = <<e.ops[2].r>>
                /\ (FLt(L, Zero) \/ FLt(avg, Zero)) => (e.ret = <<Zero>> /\ e.ops = <<>>)

\* a call with avg > 0, L = 0 and a negative safety stock returned that
\* negative safety stock
C9_Witness ==
    \E i \in 1..Len(log) :
        /\ log[i].fn = "calculate_reorder_point"
        /\ Positive(log[i].args[1])
        /\ log[i].args[2] = Zero
        /\ log[i].args[3] = Neg(One)
        /\ log[i].ret = <<Neg(One)>>

\* two calls of calculate_total_inventory_cost at 0 < Q1 < Q2 for the same
\* positive finite D, S, H
TwoQuantities ==
    /\ Len(log) = 2
    /\ log[1].fn = "calculate_total_inventory_cost"
    /\ log[2].fn = "calculate_total_inventory_cost"
    /\ SubSeq(log[1].args, 1, 3) = SubSeq(log[2].args, 1, 3)
    /\ \A j \in 1..4 : log[1].args[j] \in PosFinite /\ log[2].args[j] \in PosFinite
    /\ log[1].args[4].v < log[2].args[4].v

\* ------------------------------------------------------------------------
\* C10 as claimed: for 0 < Q1 < Q2 the ordering cost at Q2 is strictly less
\* and the holding cost at Q2 strictly greater than at Q1 (taken where no
\* operation overflows or gives a subnormal result)
\* ------------------------------------------------------------------------
C10_Original ==
    (TwoQuantities /\ AllNormal(log[1]) /\ AllNormal(log[2])) =>
        /\ FLt(log[2].ret[1], log[1].ret[1])
        /\ FLt(log[1].ret[2], log[2].ret[2])

\* ------------------------------------------------------------------------
\* C10 amended: for fixed positive finite D, S, H and finite 0 < Q1 < Q2 the
\* ordering cost at Q2 is less than or equal to the one at Q1 and the
\* holding cost at Q2 greater than or equal to the one at Q1
\* ------------------------------------------------------------------------
C10_Monotonic ==
    TwoQuantities =>
        /\ FLe(log[2].ret[1], log[1].ret[1])
        /\ FLe(log[1].ret[2], log[2].ret[2])

\* two different quantities gave the same ordering cost, every result normal
C10_Witness ==
    /\ TwoQuantities /\ AllNormal(log[1]) /\ AllNormal(log[2])
    /\ log[1].ret[1] = log[2].ret[1]

\* ------------------------------------------------------------------------
\* The page model_persediaan: its inputs, the computation pass with the
\* metrics it shows, the cost chart and the inventory-cycle chart
\* ------------------------------------------------------------------------
\* The page's numbers are scaled to the format as the format is scaled: the
\* widgets admit integers below 2^53, all of them exact floats, and the model
\* admits integers up to MaxInput and MaxLead, below 2^Prec, with 2 * D * S
\* short of the greatest float as 2^107 is of that of binary64; the year of 365
\* days, the least chart range of 100 units and the 500 chart points, exact
\* and well inside the range of binary64, are YearDays, MinChartRange and
\* ChartPoints here.
MaxInput == 5
MaxLead == 3
YearDays == 6
MinChartRange == 4
ChartPoints == 5
num_cycles == 3

\* an int operand of a float operation
float(n) == RoundRat(n * Scale, 1)

\* a - b
FSub(a, b) == FAdd(a, Neg(b))

\* a % b of numpy floats: the sign of the divisor, NaN for a zero divisor
FMod(a, b) ==
    IF a.cls = "exc" \/ b.cls = "exc" THEN Raised
    ELSE IF a.cls = "nan" \/ b.cls = "nan" \/ a.cls = "inf" THEN NaN
    ELSE IF b.cls = "inf"
         THEN IF a.v = 0 \/ ((a.v > 0) = (b.v > 0)) THEN a ELSE b
    ELSE IF b.v = 0 THEN NaN
    ELSE IF b.v > 0 THEN Fin(a.v % b.v)
    ELSE Neg(Fin((0 - a.v) % (0 - b.v)))

\* max(a, b) of Python: b when b > a, otherwise a
FMax(a, b) == IF FLt(a, b) THEN b ELSE a

\* norm.ppf(service_level_percent / 100.0) at the sampled service levels:
\* 0 at 50 percent, 0.9945 at 84 and 2.0537 at 98, as floats of the model
ServiceLevels == {50, 84, 98}
norm_ppf(service_level_percent) ==
    CASE service_level_percent = 50 -> Zero
      [] service_level_percent = 84 -> One
      [] service_level_percent = 98 -> Two

\* sampled standard deviations: none, small, ordinary, the greatest float
StdDevs == {Zero, Fin(Scale \div 2), Fin(3 * Scale), Fin(Vmax)}

\* calculate_eoq as the page calls it, on ints: 2 * D * S is an exact int and
\* the true division of two ints is rounded once
calculate_eoq_of_ints(D, S, H) ==
    IF H = 0 THEN PInf
    ELSE FSqrt(IF H > 0 THEN RoundRat(2 * D * S * Scale, H)
                        ELSE RoundRat(0 - 2 * D * S * Scale, 0 - H))

\* the outputs that read "Tak Terhingga" or report an infinite value
tak_terhingga(eoq, total_cost_at_eoq, orders_per_year_at_eoq, siklus_pemesanan) ==
    {o \in {"total_cost", "siklus", "eoq", "orders", "analysis_eoq", "analysis_total"} :
        CASE o = "total_cost" -> ~isfinite(total_cost_at_eoq)
          [] o = "siklus" -> ~(isfinite(siklus_pemesanan) /\ isfinite(orders_per_year_at_eoq))
          [] o = "eoq" -> ~isfinite(eoq)
          [] o = "orders" -> ~isfinite(orders_per_year_at_eoq)
          [] o = "analysis_eoq" -> FEq(eoq, PInf)
          [] o = "analysis_total" -> ~FEq(eoq, PInf) /\ FEq(total_cost_at_eoq, PInf)}

\* the one element of a singleton: The({e}) names the value of e, so that a
\* variable assigned once is computed once
The(S) == CHOOSE x \in S : TRUE

\* the values of one pass and the calls of the core it made
Values(b, e, oc, hc, tc, o, avg, z, ss, rop, sp, made) ==
    [branch |-> b, eoq |-> e, ordering_cost_at_eoq |-> oc, holding_cost_at_eoq |-> hc,
     total_cost_at_eoq |-> tc, orders_per_year_at_eoq |-> o, avg_daily_demand |-> avg,
     z_score |-> z, safety_stock |-> ss, reorder_point |-> rop, siklus_pemesanan |-> sp,
     calls |-> made, tak_terhingga |-> tak_terhingga(e, tc, o, sp)]

\* variant: the cycle length is 365 times the orders per year
siklus_pemesanan_times_orders(orders_per_year_at_eoq) ==
    IF FLt(Zero, orders_per_year_at_eoq)
    THEN FMul(float(YearDays), orders_per_year_at_eoq) ELSE Zero

\* siklus_pemesanan = 365 / orders_per_year_at_eoq if orders_per_year_at_eoq > 0 else 0
siklus_pemesanan_of(orders_per_year_at_eoq) ==
    IF FLt(Zero, orders_per_year_at_eoq)
    THEN FDiv(float(YearDays), orders_per_year_at_eoq) ELSE Zero

\* the computation pass: eoq, z_score, avg_daily_demand first, then what is
\* computed from them, then the cycle length
computation_pass(D, S, H, lead_time_days, service_level_percent, std_dev_daily_demand) ==
    IF H > 0 /\ D > 0
    THEN The({The({The({
             Values("computed", eoq, cost[1], cost[2], cost[3], orders_per_year_at_eoq,
                    avg_daily_demand, z_score, safety_stock, reorder_point, siklus_pemesanan,
                    <<Call("calculate_eoq", <<float(D), float(S), float(H)>>),
                      Call("calculate_total_inventory_cost", <<float(D), float(S), float(H), eoq>>),
                      Call("calculate_orders_per_year", <<float(D), eoq>>),
                      Call("calculate_safety_stock",
                           <<z_score, std_dev_daily_demand, float(lead_time_days)>>),
                      Call("calculate_reorder_point",
                           <<avg_daily_demand, float(lead_time_days), safety_stock>>)>>) :
                 reorder_point \in
                     {calculate_reorder_point(avg_daily_demand, float(lead_time_days),
                                              safety_stock).ret[1]},
                 siklus_pemesanan \in {siklus_pemesanan_of(orders_per_year_at_eoq)}}) :
             cost \in {calculate_total_inventory_cost(float(D), float(S), float(H), eoq).ret},
             orders_per_year_at_eoq \in {calculate_orders_per_year(float(D), eoq).ret[1]},
             safety_stock \in
                 {calculate_safety_stock(z_score, std_dev_daily_demand,
                                         float(lead_time_days)).ret[1]}}) :
             eoq \in {calculate_eoq_of_ints(D, S, H)},
             avg_daily_demand \in {FDiv(float(D), float(YearDays))},
             z_score \in {norm_ppf(service_level_percent)}})
    ELSE Values("fallback", Zero, Zero, Zero, Zero, Zero, Zero, Zero, Zero, Zero, Zero, <<>>)

\* np.linspace(start, stop, num), num > 1: start + i * step, the last point
\* set to stop
linspace(start, stop, num) ==
    The({The({[i \in 1..num |->
                  IF i = num THEN stop
                  ELSE IF FEq(step, Zero)
                       THEN FAdd(FMul(FDiv(float(i - 1), float(num - 1)), delta), start)
                       ELSE FAdd(FMul(float(i - 1), step), start)] :
              step \in {FDiv(delta, float(num - 1))}}) :
         delta \in {FSub(stop, start)}})

\* the cost chart: the quantities sampled and the three curves over them
cost_chart(D, S, H, eoq) ==
    The({The({The({
             [max_q_value |-> max_q_value, q_values |-> q_values,
              ordering_costs_plot |-> ordering_costs_plot,
              holding_costs_plot |-> holding_costs_plot,
              total_costs_plot |->
                  [i \in 1..ChartPoints |->
                      FAdd(ordering_costs_plot[i], holding_costs_plot[i])],
              axvline |-> isfinite(eoq) /\ FLt(Zero, eoq)] :
                 ordering_costs_plot \in
                     {[i \in 1..ChartPoints |-> FMul(FDiv(float(D), q_values[i]), float(S))]},
                 holding_costs_plot \in
                     {[i \in 1..ChartPoints |-> FMul(FDiv(q_values[i], Two), float(H))]}}) :
             q_values \in {linspace(One, max_q_value, ChartPoints)}}) :
         max_q_value \in
             {FMax(IF isfinite(eoq) /\ FLt(Zero, eoq)
                   THEN FMul(eoq, Fin((5 * Scale) \div 2))
                   ELSE FMul(float(D), Fin(Scale \div 2)),
                   float(MinChartRange))}})

\* the stock level the cycle chart draws at time_point, with the numbers it
\* is computed from
stok_level(eoq, safety_stock, avg_daily_demand, t_cycle, time_point) ==
    LET current_cycle_time == FMod(time_point, t_cycle)
        top == FAdd(eoq, safety_stock)
        used == FMul(avg_daily_demand, current_cycle_time)
        stok == FSub(top, used)
    IN  [current_cycle_time |-> current_cycle_time, top |-> top, used |-> used,
         stok |-> stok, level |-> FMax(stok, safety_stock)]

\* the inventory-cycle chart: the reorder markers (x, y) of the cycles
\* 0..num_cycles - 1 and the receipt markers of the cycles 0..num_cycles
cycle_chart(eoq, safety_stock, reorder_point, siklus_pemesanan, lead_time_days) ==
    IF FLt(Zero, siklus_pemesanan) /\ FLt(Zero, eoq)
    THEN The({[drawn |-> TRUE, t_cycle |-> t_cycle, t_total |-> t_total,
               reorder |->
                   [i \in 0..(num_cycles - 1) |->
                       The({[elapsed |-> elapsed[i], before |-> before, x |-> order_time,
                             y |-> reorder_point, plotted |-> FLe(Zero, order_time)] :
                            order_time \in {FAdd(elapsed[i], before)}})],
               receive |->
                   [i \in 0..num_cycles |->
                       The({[x |-> receive_time, y |-> FAdd(eoq, safety_stock),
                             plotted |-> FLe(receive_time, t_total)] :
                            receive_time \in {FMul(float(i), t_cycle)}})]] :
              t_cycle \in {siklus_pemesanan},
              t_total \in {FMul(siklus_pemesanan, float(num_cycles))},
              elapsed \in {[i \in 0..(num_cycles - 1) |-> FMul(float(i), siklus_pemesanan)]},
              before \in {FSub(siklus_pemesanan, float(lead_time_days))}})
    ELSE [drawn |-> FALSE]

\* one run of the page on the inputs its widgets hold
Inputs ==
    [D : 1..MaxInput, S : 1..MaxInput, H : 1..MaxInput, lead_time_days : 0..MaxLead,
     service_level_percent : ServiceLevels, std_dev_daily_demand : StdDevs]

Step(f, i) == [fn |-> f, args |-> <<>>, chain |-> FALSE, inp |-> i]

Shown(o) ==
    /\ log' = Append(log, [fn |-> Head(todo).fn, args |-> <<>>, ret |-> <<>>, ops |-> <<>>,
                           inp |-> Head(todo).inp, out |-> o])
    /\ todo' = Tail(todo)

Run_computation_pass ==
    /\ Pending("computation_pass")
    /\ LET i == Head(todo).inp
       IN  Shown(computation_pass(i.D, i.S, i.H, i.lead_time_days,
                                  i.service_level_percent, i.std_dev_daily_demand))

Plot_cost_chart ==
    /\ Pending("cost_chart")
    /\ LET i == Head(todo).inp
       IN  Shown(cost_chart(i.D, i.S, i.H, log[1].out.eoq))

Plot_cycle_chart ==
    /\ Pending("cycle_chart")
    /\ LET v == log[1].out
       IN  Shown(cycle_chart(v.eoq, v.safety_stock, v.reorder_point, v.siklus_pemesanan,
                             Head(todo).inp.lead_time_days))

InitPage ==
    /\ log = <<>>
    /\ \E i \in Inputs :
           todo = <<Step("computation_pass", i), Step("cost_chart", i), Step("cycle_chart", i)>>
NextPage == Run_computation_pass \/ Plot_cost_chart \/ Plot_cycle_chart
SpecPage == InitPage /\ [][NextPage]_vars

PageDone == Len(log) = 3 /\ log[1].fn = "computation_pass"

\* the argument triples the finished page called calculate_eoq on
EoqArguments ==
    LET made == log[1].out.calls
    IN  {made[j].args : j \in {k \in 1..Len(made) : made[k].fn = "calculate_eoq"}}

\* ------------------------------------------------------------------------
\* C11 as claimed: the page that has finished has run a sensitivity sweep: for
\* one of D, S, H it has called calculate_eoq on 10 argument triples that
\* differ in that parameter only, from exactly 0.5 times to exactly 1.5 times
\* the value the page holds
\* ------------------------------------------------------------------------
C11_SensitivitySweep ==
    PageDone =>
        LET i == log[1].inp
            base == <<float(i.D), float(i.S), float(i.H)>>
        IN  \E k \in 1..3 :
                LET rows == {a \in EoqArguments : \A j \in (1..3) \ {k} : a[j] = base[j]}
                    first == FMul(Fin(Scale \div 2), base[k])
                    last == FMul(Fin((3 * Scale) \div 2), base[k])
                IN  /\ Cardinality(rows) = 10
                    /\ \E a \in rows : a[k] = first
                    /\ \E a \in rows : a[k] = last
                    /\ \A a \in rows : FLe(first, a[k]) /\ FLe(a[k], last)

\* ------------------------------------------------------------------------
\* C12 as claimed: the quantities sampled for the cost chart, ChartPoints
\* evenly spaced points from 1 to max_q_value, are all finite and strictly
\* positive, and the range holds the EOQ: 1 <= EOQ <= max_q_value
\* ------------------------------------------------------------------------
C12_ChartHoldsEoq ==
    \A n \in 1..Len(log) :
        log[n].fn = "cost_chart" =>
            LET c == log[n].out
                eoq == log[1].out.eoq
            IN  /\ Len(c.q_values) = ChartPoints
                /\ c.q_values[1] = One
                /\ c.q_values[ChartPoints] = c.max_q_value
                /\ \A j \in 1..ChartPoints : isfinite(c.q_values[j]) /\ FLt(Zero, c.q_values[j])
                /\ FLe(One, eoq)
                /\ FLe(eoq, c.max_q_value)

\* the numbers of the pass and of the reorder marker of cycle i came out of
\* their operations exactly, none of them rounded: the daily demand times the
\* cycle length is the EOQ, the reorder point is avg_daily_demand *
\* lead_time_days + safety_stock, and the marker's time and the stock level at
\* that time are the exact values of their expressions
ExactAt(v, c, L, i) ==
    LET m == c.reorder[i]
        s == stok_level(v.eoq, v.safety_stock, v.avg_daily_demand, c.t_cycle, m.x)
    IN  /\ \A a \in {v.eoq, v.safety_stock, v.avg_daily_demand, v.reorder_point, c.t_cycle,
                     m.x, s.top, s.used, s.stok} : isfinite(a)
        /\ v.avg_daily_demand.v * c.t_cycle.v = v.eoq.v * Scale
        /\ v.reorder_point.v = v.avg_daily_demand.v * L + v.safety_stock.v
        /\ m.x.v = i * c.t_cycle.v + c.t_cycle.v - L * Scale
        /\ s.top.v = v.eoq.v + v.safety_stock.v
        /\ s.used.v * Scale = v.avg_daily_demand.v * s.current_cycle_time.v
        /\ s.stok.v = s.top.v - s.used.v

\* ------------------------------------------------------------------------
\* C13 as claimed: every reorder marker the cycle chart plots lies on the
\* simulated stock curve: for each cycle i in 0..num_cycles - 1 whose order
\* time is not negative, the stock level at the order time equals the reorder
\* point the marker is drawn at, for every lead time >= 0 (taken where none
\* of the numbers involved had to be rounded)
\* ------------------------------------------------------------------------
C13_MarkersOnCurve ==
    \A n \in 1..Len(log) :
        (log[n].fn = "cycle_chart" /\ log[n].out.drawn) =>
            LET v == log[1].out
                c == log[n].out
                L == log[n].inp.lead_time_days
            IN  \A i \in 0..(num_cycles - 1) :
                    (c.reorder[i].plotted /\ ExactAt(v, c, L, i)) =>
                        FEq(stok_level(v.eoq, v.safety_stock, v.avg_daily_demand,
                                       c.t_cycle, c.reorder[i].x).level,
                            c.reorder[i].y)

\* what C14 says of a pass apart from the product of cycle length and orders
\* per year: the H > 0 and D > 0 branch was taken, EOQ, total cost, orders
\* per year and cycle length are finite and strictly positive, the safety stock
\* is not negative, the reorder point is not below it, and no output reads
\* "Tak Terhingga" or reports an infinite value
PassIsRegular(v) ==
    /\ v.branch = "computed"
    /\ \A a \in {v.eoq, v.total_cost_at_eoq, v.orders_per_year_at_eoq, v.siklus_pemesanan} :
           isfinite(a) /\ FLt(Zero, a)
    /\ FLe(Zero, v.safety_stock)
    /\ FLe(v.safety_stock, v.reorder_point)
    /\ v.tak_terhingga = {}

\* cycle length * orders per year - YearDays, in units of 1 / Scale^2
ProductError(v) ==
    v.siklus_pemesanan.v * v.orders_per_year_at_eoq.v - YearDays * Scale * Scale

\* ------------------------------------------------------------------------
\* C14 as claimed: on every admitted input the pass is regular and
\* cycle length * orders per year is exactly the number of days of the year
\* ------------------------------------------------------------------------
C14_Original ==
    \A n \in 1..Len(log) :
        log[n].fn = "computation_pass" =>
            /\ PassIsRegular(log[n].out)
            /\ ProductError(log[n].out) = 0

\* ------------------------------------------------------------------------
\* C14, amended: on every admitted input the pass is regular and
\* cycle length * orders per year is the number of days of the year up to the
\* rounding of the one division that gives the cycle length: it differs from
\* it by at most 2^-Prec of it
\* ------------------------------------------------------------------------
C14_RegularPass ==
    \A n \in 1..Len(log) :
        log[n].fn = "computation_pass" =>
            /\ PassIsRegular(log[n].out)
            /\ Abs(ProductError(log[n].out)) * MantLimit <= YearDays * Scale * Scale

\* a pass with a positive safety stock whose cycle length had to be rounded
C14_Witness ==
    \E n \in 1..Len(log) :
        /\ log[n].fn = "computation_pass"
        /\ PassIsRegular(log[n].out)
        /\ isfinite(log[n].out.safety_stock) /\ FLt(Zero, log[n].out.safety_stock)
        /\ ProductError(log[n].out) # 0

====
